---- MODULE Spec2Model ----
(***************************************************************************)
(* ElderSafe gateway (raspberrypi/main.py, modules/hardware_ctrl.py,       *)
(* modules/vision_ai.py, config.py).                                       *)
(*                                                                         *)
(* The gateway runs these threads: the MQTT network thread, which calls    *)
(* on_mqtt_message for every inbound message; emotion_publish_loop, which  *)
(* samples the local camera; and one handle_emergency thread per confirm,  *)
(* started with threading.Thread(...).start().  The emergency threads      *)
(* share the HardwareManager hw without any lock.                          *)
(*                                                                         *)
(* A fourth kind of thread, env_loop, samples the environment sensors and   *)
(* publishes one sample per cycle.                                         *)
(*                                                                         *)
(* Units: g-force in thousandths of a gravity, confidence, face area and   *)
(* box ratio in thousandths, temperature and humidity in hundredths, time  *)
(* in seconds.                                                             *)
(***************************************************************************)
EXTENDS Integers, FiniteSets

\* Number of handle_emergency threads that may be alive at the same time.
MaxHandlers == 2

\* config.py: G_FORCE_LIMIT = 1.8
G_FORCE_LIMIT == 1800
\* config.py: CAM_FALL_CONF_THRESHOLD = 0.6
CAM_FALL_CONF_THRESHOLD == 600
\* main.py handle_emergency: time.sleep(3)
HOLD_DURATION == 3
\* hardware_ctrl.py trigger_emergency / reset_emergency: time.sleep(1)
SERVO_SETTLE == 1
\* config.py: ENV_INTERVAL = 5
ENV_INTERVAL == 5
\* hardware_ctrl.py read_env: for attempt in range(3)
DHT_ATTEMPTS == 3
\* hardware_ctrl.py read_env: time.sleep(2) after a failed attempt
DHT_RETRY_WAIT == 2

Handlers == 1..MaxHandlers

VARIABLES
    gpio_ready,                   \* hw._gpio_ready, fixed by HardwareManager.__init__
    buzzer_on,                    \* hw._buzzer_on, the logical emergency state
    buzzer,                       \* the buzzer pin: "off" | "on"
    servo,                        \* last servo command: "none" | "min" | "max"
    pc,                           \* pc[h]: position of emergency thread h
    rem,                          \* rem[h]: seconds left of the sleep thread h is in
    active_for,                   \* seconds since the Idle -> Active edge (capped)
    gpio_fault,                   \* some GPIO call has raised so far
    global_critical_alert,        \* "ALERT_OK" | "FALL DETECTED"
    global_camera_fall_detected,  \* overlay flag written by emotion_publish_loop
    vres,                         \* emotion_publish_loop's latest analyze_scene result
    inbox,                        \* DecisionSpec: the one input given to the gateway
    delivered,                    \* DecisionSpec: the gateway has processed inbox
    cam_threshold,                \* config.CAM_FALL_CONF_THRESHOLD as configured
    cloud_motion,                 \* last payload published on TOPIC_CLOUD_MOTION
    global_latest_g_force,        \* g_val of the last motion message stored
    mqtt_loop,                    \* the MQTT network thread: "running" | "dead"
    env_out,                      \* last payload published on TOPIC_ENV
    env_pc,                       \* position of env_loop
    env_rem,                      \* seconds left of the sleep env_loop is in
    attempt,                      \* read_env: DHT attempts that have failed
    env,                          \* env_loop's local env, the last sample read
    global_temperature,           \* status view: str(env['temp'])
    global_humidity,              \* status view: str(env['humidity'])
    global_smoke_status,          \* status view: "SMOKE_OK" | "SMOKE_DETECTED"
    connected,                    \* the MQTT client has a connection to the broker
    subscribed,                   \* the broker holds the gateway's subscriptions
    main_pc,                      \* main thread: "serving" | "leaving" | "exited"
    cam_inflight,                 \* cam message of emotion_publish_loop on its way back
    dash_temperature,             \* web_stream.py global_temperature
    dash_humidity,                \* web_stream.py global_humidity
    dash_smoke_status,            \* web_stream.py global_smoke_status
    dash_env_seen,                \* last TOPIC_ENV payload the dashboard was given
    dash_last_sample              \* last env sample the dashboard was given

vars == <<gpio_ready, buzzer_on, buzzer, servo, pc, rem, active_for, gpio_fault,
          global_critical_alert, global_camera_fall_detected, vres, inbox, delivered,
          cam_threshold, cloud_motion, global_latest_g_force, mqtt_loop, env_out,
          env_pc, env_rem, attempt, env, global_temperature, global_humidity,
          global_smoke_status, connected, subscribed, main_pc, cam_inflight,
          dash_temperature, dash_humidity, dash_smoke_status, dash_env_seen,
          dash_last_sample>>

hwvars == <<gpio_ready, buzzer_on, buzzer, servo, active_for, gpio_fault>>
statusvars == <<global_critical_alert, global_camera_fall_detected, vres>>
inputvars == <<inbox, delivered>>
msgvars == <<cloud_motion, global_latest_g_force, mqtt_loop>>
envvars == <<env_pc, env_rem, attempt, env, global_temperature, global_humidity,
             global_smoke_status>>
sysvars == <<connected, subscribed, main_pc>>
\* The dashboard process (web_stream.py): the globals its ENV_TOPIC branch
\* writes, and what it has received on that topic.
dashvars == <<dash_temperature, dash_humidity, dash_smoke_status, dash_env_seen,
              dash_last_sample>>
\* What no emergency thread writes, env_out apart.
gatewayvars == <<statusvars, inputvars, cam_threshold, dashvars, sysvars, cam_inflight, msgvars, envvars>>

\* Positions of a handle_emergency thread.
\*   idle      no thread in this slot
\*   start     thread started, hw.trigger_emergency() not yet entered
\*   t_buzzer  _buzzer_on set, before self.buzzer.on()
\*   t_servo   before self.servo.max()
\*   t_sleep   in time.sleep(1) of trigger_emergency
\*   publish   trigger_emergency returned, before mqtt_client.publish
\*   hold      in time.sleep(3)
\*   r_buzzer  reset_emergency has cleared _buzzer_on, before self.buzzer.off()
\*   r_servo   before self.servo.min()
\*   r_sleep   in time.sleep(1) of reset_emergency
PcValues == {"idle", "start", "t_buzzer", "t_servo", "t_sleep", "publish",
             "hold", "r_buzzer", "r_servo", "r_sleep"}

\* A thread that has called trigger_emergency and has not yet called
\* reset_emergency: its actuation cycle is in flight and its reset is pending.
ResetPending(h) == pc[h] \in {"t_buzzer", "t_servo", "t_sleep", "publish", "hold"}

InFlight == {h \in Handlers : ResetPending(h)}

TypeOK ==
    /\ gpio_ready \in BOOLEAN
    /\ buzzer_on \in BOOLEAN
    /\ buzzer \in {"off", "on"}
    /\ servo \in {"none", "min", "max"}
    /\ pc \in [Handlers -> PcValues]
    /\ rem \in [Handlers -> 0..HOLD_DURATION]
    /\ active_for \in 0..HOLD_DURATION
    /\ gpio_fault \in BOOLEAN
    /\ global_critical_alert \in {"ALERT_OK", "FALL DETECTED"}
    /\ global_camera_fall_detected \in BOOLEAN
    /\ vres.t \in {"none", "dict"}
    /\ delivered \in BOOLEAN
    /\ cam_threshold \in 0..1000
    /\ cloud_motion.src \in {"none", "motion"}
    /\ global_latest_g_force \in Nat
    /\ mqtt_loop \in {"running", "dead"}
    /\ env_out.kind \in {"none", "event", "sample"}
    /\ env_pc \in {"read", "retry", "sleep", "dead"}
    /\ env_rem \in 0..ENV_INTERVAL
    /\ attempt \in 0..DHT_ATTEMPTS
    /\ env.kind \in {"none", "sample"}
    /\ global_temperature.t \in {"N/A", "text"}
    /\ global_humidity.t \in {"N/A", "text"}
    /\ global_smoke_status \in {"SMOKE_OK", "SMOKE_DETECTED"}
    /\ connected \in BOOLEAN
    /\ subscribed \in BOOLEAN
    /\ main_pc \in {"serving", "leaving", "exited"}
    /\ cam_inflight.src \in {"none", "cam"}
    /\ dash_temperature.t \in {"N/A", "text"}
    /\ dash_humidity.t \in {"N/A", "text"}
    /\ dash_smoke_status \in {"SMOKE_OK", "SMOKE_DETECTED"}
    /\ dash_env_seen.kind \in {"none", "event", "sample"}
    /\ dash_last_sample.kind \in {"none", "sample"}

\* The program state once main.py has built hw and started its threads, the
\* configured vision threshold apart.
BootState ==
    /\ gpio_ready \in BOOLEAN
    /\ buzzer_on = FALSE
    /\ buzzer = "off"
    /\ servo = "none"
    /\ pc = [h \in Handlers |-> "idle"]
    /\ rem = [h \in Handlers |-> 0]
    /\ active_for = 0
    /\ gpio_fault = FALSE
    /\ global_critical_alert = "ALERT_OK"
    /\ global_camera_fall_detected = FALSE
    /\ vres = [t |-> "none", fall_detected |-> "0", confidence |-> 0]   \* no result yet
    /\ cloud_motion = [src |-> "none"]
    /\ global_latest_g_force = 0
    /\ mqtt_loop = "running"
    /\ env_out = [kind |-> "none"]
    /\ env_pc = "read"
    /\ env_rem = 0
    /\ attempt = 0
    /\ env = [kind |-> "none"]
    /\ global_temperature = [t |-> "N/A", v |-> 0]
    /\ global_humidity = [t |-> "N/A", v |-> 0]
    /\ global_smoke_status = "SMOKE_OK"
    /\ connected = TRUE          \* mqtt.connect_and_start()
    /\ subscribed = TRUE         \* mqtt.subscribe(TOPIC_MOTION), mqtt.subscribe(TOPIC_CAM)
    /\ main_pc = "serving"       \* in app.run
    /\ cam_inflight = [src |-> "none"]
    \* web_stream.py 26-28: the dashboard has started and has received nothing
    /\ dash_temperature = [t |-> "N/A", v |-> 0]
    /\ dash_humidity = [t |-> "N/A", v |-> 0]
    /\ dash_smoke_status = "SMOKE_OK"
    /\ dash_env_seen = [kind |-> "none"]
    /\ dash_last_sample = [kind |-> "none"]

\* The program as shipped: config.py sets the threshold.
Boot ==
    /\ BootState
    /\ cam_threshold = CAM_FALL_CONF_THRESHOLD

(***************************************************************************)
(* threading.Thread(target=handle_emergency, args=(mqtt,)).start()         *)
(* The new thread takes the lowest free slot; with every slot taken the    *)
(* confirm is outside the model's bound.                                   *)
(***************************************************************************)
FreeSlots == {h \in Handlers : pc[h] = "idle"}

StartHandler ==
    /\ FreeSlots # {}
    /\ LET h == CHOOSE x \in FreeSlots : \A y \in FreeSlots : x <= y
       IN  pc' = [pc EXCEPT ![h] = "start"]
    /\ UNCHANGED rem

(***************************************************************************)
(* HardwareManager.trigger_emergency (hardware_ctrl.py 95-125)             *)
(***************************************************************************)
\* self._buzzer_on = True; then the GPIO part only if self._gpio_ready.
TriggerFlag(h) ==
    /\ pc[h] = "start"
    /\ buzzer_on' = TRUE
    /\ active_for' = IF buzzer_on THEN active_for ELSE 0
    /\ pc' = [pc EXCEPT ![h] = IF gpio_ready THEN "t_buzzer" ELSE "publish"]
    /\ UNCHANGED <<gpio_ready, buzzer, servo, rem, gpio_fault,
                   gatewayvars, env_out>>

\* Mutant: trigger_emergency without its try/except: a raise of
\* self.buzzer.on() leaves handle_emergency and ends the thread.
TriggerBuzzer_Uncaught(h) ==
    /\ pc[h] = "t_buzzer"
    /\ \E ok \in BOOLEAN :
         IF ok
         THEN /\ buzzer' = "on"
              /\ pc' = [pc EXCEPT ![h] = "t_servo"]
              /\ UNCHANGED gpio_fault
         ELSE /\ gpio_fault' = TRUE
              /\ pc' = [pc EXCEPT ![h] = "idle"]
              /\ UNCHANGED buzzer
    /\ UNCHANGED <<gpio_ready, buzzer_on, servo, rem, active_for,
                   gatewayvars, env_out>>

\* self.buzzer.on(); a raise leaves the try block (the except clause logs it).
\* The RGB LED and the single LED that follow swallow their own failures and
\* decide nothing.
TriggerBuzzer(h) ==
    /\ pc[h] = "t_buzzer"
    /\ \E ok \in BOOLEAN :
         IF ok
         THEN /\ buzzer' = "on"
              /\ pc' = [pc EXCEPT ![h] = "t_servo"]
              /\ UNCHANGED gpio_fault
         ELSE /\ gpio_fault' = TRUE
              /\ pc' = [pc EXCEPT ![h] = "publish"]
              /\ UNCHANGED buzzer
    /\ UNCHANGED <<gpio_ready, buzzer_on, servo, rem, active_for,
                   gatewayvars, env_out>>

\* self.servo.max(); then time.sleep(1).
TriggerServo(h) ==
    /\ pc[h] = "t_servo"
    /\ \E ok \in BOOLEAN :
         IF ok
         THEN /\ servo' = "max"
              /\ pc' = [pc EXCEPT ![h] = "t_sleep"]
              /\ rem' = [rem EXCEPT ![h] = SERVO_SETTLE]
              /\ UNCHANGED gpio_fault
         ELSE /\ gpio_fault' = TRUE
              /\ pc' = [pc EXCEPT ![h] = "publish"]
              /\ UNCHANGED <<servo, rem>>
    /\ UNCHANGED <<gpio_ready, buzzer_on, buzzer, active_for,
                   gatewayvars, env_out>>

\* time.sleep(1) is over; self.servo.detach() stops the pulses and leaves the
\* horn where it is (a raise is caught); trigger_emergency returns.
TriggerDone(h) ==
    /\ pc[h] = "t_sleep"
    /\ rem[h] = 0
    /\ pc' = [pc EXCEPT ![h] = "publish"]
    /\ UNCHANGED <<hwvars, rem, gatewayvars, env_out>>

(***************************************************************************)
(* handle_emergency (main.py 225-230)                                      *)
(***************************************************************************)
\* The payloads seen on TOPIC_ENV: none yet, the fall event of handle_emergency,
\* a sample of env_loop.
NoPublish == [kind |-> "none"]
FallEvent == [kind |-> "event", event |-> "fall"]

\* mqtt_client.publish(config.TOPIC_ENV, {"event": "fall", ...}); time.sleep(3)
PublishFall(h) ==
    /\ pc[h] = "publish"
    /\ pc' = [pc EXCEPT ![h] = "hold"]
    /\ rem' = [rem EXCEPT ![h] = HOLD_DURATION]
    /\ env_out' = FallEvent
    /\ UNCHANGED <<hwvars, gatewayvars>>

(***************************************************************************)
(* HardwareManager.reset_emergency (hardware_ctrl.py 127-153)              *)
(***************************************************************************)
\* Mutant: reset_emergency without its "self._buzzer_on = False".
ResetFlag_KeepsFlag(h) ==
    /\ pc[h] = "hold"
    /\ rem[h] = 0
    /\ pc' = [pc EXCEPT ![h] = IF gpio_ready THEN "r_buzzer" ELSE "idle"]
    /\ UNCHANGED <<hwvars, rem, gatewayvars, env_out>>

\* time.sleep(3) is over; hw.reset_emergency(): self._buzzer_on = False.
ResetFlag(h) ==
    /\ pc[h] = "hold"
    /\ rem[h] = 0
    /\ buzzer_on' = FALSE
    /\ active_for' = 0
    /\ pc' = [pc EXCEPT ![h] = IF gpio_ready THEN "r_buzzer" ELSE "idle"]
    /\ UNCHANGED <<gpio_ready, buzzer, servo, rem, gpio_fault,
                   gatewayvars, env_out>>

\* self.buzzer.off()
ResetBuzzer(h) ==
    /\ pc[h] = "r_buzzer"
    /\ \E ok \in BOOLEAN :
         IF ok
         THEN /\ buzzer' = "off"
              /\ pc' = [pc EXCEPT ![h] = "r_servo"]
              /\ UNCHANGED gpio_fault
         ELSE /\ gpio_fault' = TRUE
              /\ pc' = [pc EXCEPT ![h] = "idle"]
              /\ UNCHANGED buzzer
    /\ UNCHANGED <<gpio_ready, buzzer_on, servo, rem, active_for,
                   gatewayvars, env_out>>

\* self.servo.min(); then time.sleep(1).
ResetServo(h) ==
    /\ pc[h] = "r_servo"
    /\ \E ok \in BOOLEAN :
         IF ok
         THEN /\ servo' = "min"
              /\ pc' = [pc EXCEPT ![h] = "r_sleep"]
              /\ rem' = [rem EXCEPT ![h] = SERVO_SETTLE]
              /\ UNCHANGED gpio_fault
         ELSE /\ gpio_fault' = TRUE
              /\ pc' = [pc EXCEPT ![h] = "idle"]
              /\ UNCHANGED <<servo, rem>>
    /\ UNCHANGED <<gpio_ready, buzzer_on, buzzer, active_for,
                   gatewayvars, env_out>>

\* time.sleep(1) is over; self.servo.detach(); the thread ends.
ResetDone(h) ==
    /\ pc[h] = "r_sleep"
    /\ rem[h] = 0
    /\ pc' = [pc EXCEPT ![h] = "idle"]
    /\ UNCHANGED <<hwvars, rem, gatewayvars, env_out>>

HandlerStep(h) ==
    \/ TriggerFlag(h)
    \/ TriggerBuzzer(h)
    \/ TriggerServo(h)
    \/ TriggerDone(h)
    \/ PublishFall(h)
    \/ ResetFlag(h)
    \/ ResetBuzzer(h)
    \/ ResetServo(h)
    \/ ResetDone(h)

(***************************************************************************)
(* One second passes: every time.sleep in progress has one second less to  *)
(* go.  A sleeping thread wakes at or after its deadline.                  *)
(***************************************************************************)
Sleeping(h) == pc[h] \in {"t_sleep", "hold", "r_sleep"}

\* env_loop is in time.sleep(2) of read_env or in time.sleep(ENV_INTERVAL).
EnvSleeping == env_pc \in {"retry", "sleep"}

Tick ==
    /\ \/ \E h \in Handlers : Sleeping(h) /\ rem[h] > 0
       \/ buzzer_on /\ active_for < HOLD_DURATION
       \/ EnvSleeping /\ env_rem > 0
    /\ rem' = [h \in Handlers |-> IF Sleeping(h) /\ rem[h] > 0 THEN rem[h] - 1 ELSE rem[h]]
    /\ active_for' = IF buzzer_on /\ active_for < HOLD_DURATION
                     THEN active_for + 1 ELSE active_for
    /\ env_rem' = IF EnvSleeping /\ env_rem > 0 THEN env_rem - 1 ELSE env_rem
    /\ UNCHANGED <<gpio_ready, buzzer_on, buzzer, servo, pc, gpio_fault,
                   statusvars, inputvars, cam_threshold, dashvars, sysvars, cam_inflight, msgvars, env_out,
                   env_pc, attempt, env, global_temperature, global_humidity,
                   global_smoke_status>>

(***************************************************************************)
(* Inbound payloads.  json.loads gives None for an undecodable payload; an *)
(* empty mapping is falsy, so both skip every branch ("and payload").  A   *)
(* field is Missing (no such key), Null (JSON null), Bad (present, not a   *)
(* number) or the number it parses to.                                     *)
(***************************************************************************)
Num(n) == [t |-> "num", v |-> n]
Missing == [t |-> "missing", v |-> 0]
Null == [t |-> "null", v |-> 0]
Bad == [t |-> "bad", v |-> 0]
Raise == [t |-> "raise", v |-> 0]
NoneVal == [t |-> "none", v |-> 0]

IsNumber(f) == f.t = "num"

\* float(payload.get(key, 0)): 0 for a missing key, the number for a numeric
\* field, a raise for anything float() rejects.
FloatOrZero(f) ==
    IF f = Missing THEN Num(0) ELSE IF IsNumber(f) THEN f ELSE Raise

\* main.py 107-113: g_val and mic_val are parsed in ONE try block, so a raise
\* on either field (or payload.get on a non-mapping) sets both to 0.
GVal(kind, g_force, mic) ==
    IF kind = "nonmap" \/ FloatOrZero(g_force) = Raise \/ FloatOrZero(mic) = Raise
    THEN 0
    ELSE FloatOrZero(g_force).v

\* Mutant: the test written with >= instead of >.
PrimaryTrigger_AtLimit(g_val) == g_val >= G_FORCE_LIMIT

\* main.py 155: the primary trigger test.
PrimaryTrigger(g_val) == g_val > G_FORCE_LIMIT

\* main.py 181: int(payload.get('fall_detected', 0)); a raise when int() rejects it.
FallVal(fall) ==
    IF fall = "missing" THEN Num(0)
    ELSE IF fall = "1" THEN Num(1)
    ELSE IF fall = "0" THEN Num(0)
    ELSE Raise

\* main.py 182-188: conf is None when no confidence key is present, when its
\* value is null, and when float() raises on it.
ConfOf(conf) == IF IsNumber(conf) THEN conf ELSE NoneVal

\* Mutant: the confidence compared with > instead of >=.
CamTrigger_Above(fall_val, conf) ==
    IF fall_val = Num(1)
    THEN IF conf = NoneVal THEN TRUE ELSE conf.v > cam_threshold
    ELSE FALSE

\* Mutant: a report without confidence no longer triggers.
CamTrigger_NoLegacy(fall_val, conf) ==
    IF fall_val = Num(1)
    THEN IF conf = NoneVal THEN FALSE ELSE conf.v >= cam_threshold
    ELSE FALSE

\* main.py 190-196: the cam-message decision.
CamTrigger(fall_val, conf) ==
    IF fall_val = Num(1)
    THEN IF conf = NoneVal THEN TRUE ELSE conf.v >= cam_threshold
    ELSE FALSE

(***************************************************************************)
(* The network thread calls on_mqtt_message for a message on TOPIC_MOTION  *)
(* or TOPIC_CAM while it runs, the client is connected and the broker      *)
(* holds the subscriptions made at start-up (main.py 505-507).             *)
(***************************************************************************)
Receiving == connected /\ subscribed /\ mqtt_loop = "running"

(***************************************************************************)
(* on_mqtt_message, motion branch (main.py 107-177).  A payload that is    *)
(* None or empty skips the branch.  Otherwise the raw payload is           *)
(* republished first; m.influx_ok says whether the write_points calls      *)
(* before the trigger test return: a raise (taken at the first, line 133)  *)
(* leaves on_mqtt_message there, and the exception ends the network thread *)
(* that called it.                                                         *)
(***************************************************************************)
OnMotion(m) ==
    /\ IF m.kind \in {"nonmap", "map"}
       THEN /\ cloud_motion' = m
            /\ IF m.influx_ok
               THEN /\ global_latest_g_force' = GVal(m.kind, m.g_force, m.mic)
                    /\ IF PrimaryTrigger(GVal(m.kind, m.g_force, m.mic))
                       THEN /\ StartHandler
                            /\ global_critical_alert' = "FALL DETECTED"
                       ELSE /\ global_critical_alert' = "ALERT_OK"
                            /\ UNCHANGED <<pc, rem>>
                    /\ UNCHANGED mqtt_loop
               ELSE /\ mqtt_loop' = "dead"
                    /\ UNCHANGED <<pc, rem, global_critical_alert,
                                   global_latest_g_force>>
       ELSE UNCHANGED <<pc, rem, global_critical_alert, msgvars>>
    /\ UNCHANGED <<hwvars, global_camera_fall_detected, vres, cam_threshold, dashvars, sysvars, cam_inflight,
                   envvars, env_out>>

(***************************************************************************)
(* on_mqtt_message, cam branch (main.py 179-222).  A payload that is None  *)
(* or empty skips the branch.  payload.get on a non-mapping and int() on a *)
(* bad fall_detected raise before the decision, outside any try block.     *)
(***************************************************************************)
\* main.py 181: the statement that raises on such a payload.
CamRaises(m) ==
    \/ m.kind = "nonmap"
    \/ m.kind = "map" /\ FallVal(m.fall_detected) = Raise

CamConfirms(m) ==
    /\ m.kind = "map"
    /\ FallVal(m.fall_detected) # Raise
    /\ CamTrigger(FallVal(m.fall_detected), ConfOf(m.confidence))

OnCam(m) ==
    /\ IF CamConfirms(m)
       THEN StartHandler
       ELSE UNCHANGED <<pc, rem>>
    /\ mqtt_loop' = IF CamRaises(m) THEN "dead" ELSE mqtt_loop
    /\ UNCHANGED <<hwvars, statusvars, cam_threshold, dashvars, sysvars, cloud_motion,
                   global_latest_g_force, envvars, env_out>>

(***************************************************************************)
(* VisionSystem.analyze_scene (vision_ai.py 29-100), with OpenCV present   *)
(* (main.py imports cv2 itself).  A scene says whether the frame capture   *)
(* works, how many faces are found, the first face's width/height ratio    *)
(* and its area relative to 0.12 of the frame, clamped to [0,1]            *)
(* (face_area_norm).                                                       *)
(***************************************************************************)
Min(a, b) == IF a < b THEN a ELSE b
Max(a, b) == IF a > b THEN a ELSE b

\* round(x, 2) on thousandths: to the nearest hundredth.
Round2(x) == ((x + 5) \div 10) * 10

\* ratio_score: 0 when ratio <= 1, (ratio - 1) / 0.5 capped at 1 above it.
RatioScore(ratio) == IF ratio > 1000 THEN Min(1000, (ratio - 1000) * 2) ELSE 0

NoVres == [t |-> "none", fall_detected |-> "0", confidence |-> 0]

AnalyzeScene(sc) ==
    IF ~sc.capture_ok THEN NoVres
    ELSE IF sc.faces = 0
    THEN [t |-> "dict", fall_detected |-> "1", confidence |-> 600]
    ELSE LET ratio_score == RatioScore(sc.ratio)
             raw == (600 * sc.face_area_norm + 400 * ratio_score) \div 1000
             confidence == Round2(Min(990, Max(0, raw)))
             fall_flag == ratio_score >= 700 \/ sc.face_area_norm >= 900
         IN  [t |-> "dict",
              fall_detected |-> IF fall_flag THEN "1" ELSE "0",
              confidence |-> confidence]

\* main.py 241-244: camera_conf = float(vres.get('confidence', 0.0)), and 0.0
\* when float() raises: a confidence that is missing, null or not a number
\* counts as 0.
LocalConf(conf) == IF IsNumber(conf) THEN conf.v ELSE 0

\* main.py 246: the local camera decision on an assessment.
LocalDecision(fall, conf) ==
    /\ fall = "1"
    /\ LocalConf(conf) >= cam_threshold

\* main.py 238-250: fall_flag is '1' only for a result with fall_detected '1'
\* and a confidence at or above the threshold; no result leaves it '0'.
LocalFallFlag(r) ==
    /\ r.t = "dict"
    /\ LocalDecision(r.fall_detected, Num(r.confidence))

(***************************************************************************)
(* emotion_publish_loop, one cycle (main.py 236-289): analyse, decide,     *)
(* start the emergency thread on a fall, publish the cam message, write to *)
(* InfluxDB (its failure is caught), sleep 10 s.  The gateway subscribes   *)
(* to TOPIC_CAM itself (main.py 507), so the broker sends the cam message  *)
(* back to it; it is back before the next cycle.                           *)
(***************************************************************************)
\* main.py 264: the payload published on TOPIC_CAM; fall_flag is '1' or '0',
\* camera_conf is 0.0 without a result.
CamPayload(r) ==
    [src |-> "cam", kind |-> "map",
     fall_detected |-> IF LocalFallFlag(r) THEN "1" ELSE "0",
     confidence |-> Num(Round2(IF r.t = "dict" THEN r.confidence ELSE 0))]

EmotionCycle(sc) ==
    LET r == AnalyzeScene(sc)
    IN  /\ cam_inflight.src = "none"
        /\ vres' = r
        /\ IF LocalFallFlag(r)
           THEN /\ global_camera_fall_detected' = TRUE
                /\ StartHandler
           ELSE /\ global_camera_fall_detected' = FALSE
                /\ UNCHANGED <<pc, rem>>
        /\ cam_inflight' = IF Receiving THEN CamPayload(r) ELSE cam_inflight
        /\ UNCHANGED <<hwvars, global_critical_alert, cam_threshold, dashvars, sysvars, msgvars,
                       envvars, env_out>>

(***************************************************************************)
(* HardwareManager.read_env (hardware_ctrl.py 155-188) and env_loop        *)
(* (main.py 292-325).  Positions of env_loop:                              *)
(*   read   in read_env, at a DHT attempt (or before the first)            *)
(*   retry  in time.sleep(2) after a failed DHT attempt                    *)
(*   sleep  sample published, in time.sleep(ENV_INTERVAL)                  *)
(*   dead   write_points has raised and ended the thread                   *)
(***************************************************************************)
\* The "N/A" read_env returns for a value it does not have.
NA == [t |-> "na", v |-> 0]

\* round(x, 1) on hundredths: to the nearest tenth.
Round1(x) == ((x + 5) \div 10) * 10

\* str(env.get(key, 'N/A')): the text of the number, or "N/A".
Str(f) == IF f = NA THEN [t |-> "N/A", v |-> 0] ELSE [t |-> "text", v |-> f.v]

\* What the DHT sensor gives when an attempt succeeds: temperature, humidity.
DhtReadings == {[temp |-> 2153, hum |-> 4807], [temp |-> 3096, hum |-> 6120]}

\* The dict read_env returns.
Sample(temp, hum, smoke) ==
    [kind |-> "sample", temp |-> temp, humidity |-> hum, smoke |-> smoke]

\* smoke_level: 1 or 0 from smoke_sensor.is_pressed; random.randint(0, 1) when
\* there is no smoke sensor (no GPIO) or when reading it raises.
SmokeLevels == {0, 1}

\* The rest of read_env once temp and hum are settled, and env_loop up to its
\* sleep: the smoke level, the returned dict, mqtt_client.publish(TOPIC_ENV, env),
\* time.sleep(config.ENV_INTERVAL).
ReturnAndPublish(temp, hum) ==
    \E smoke \in SmokeLevels :
        /\ env' = Sample(temp, hum, smoke)
        /\ env_out' = Sample(temp, hum, smoke)
        /\ env_pc' = "sleep"
        /\ env_rem' = ENV_INTERVAL
        /\ attempt' = 0

\* Mutant: read_env made to wait for the emergency threads, as if hw were
\* guarded by a lock that handle_emergency holds from trigger to reset.
ReadDht_WaitsForHandlers ==
    /\ env_pc = "read"
    /\ \A h \in Handlers : pc[h] = "idle"
    /\ \/ attempt = 0 /\ ReturnAndPublish(NA, NA)
       \/ \E r \in DhtReadings :
             ReturnAndPublish(Num(Round1(r.temp)), Num(Round1(r.hum)))
       \/ /\ env_pc' = "retry"
          /\ env_rem' = DHT_RETRY_WAIT
          /\ attempt' = attempt + 1
          /\ UNCHANGED <<env, env_out>>
    /\ UNCHANGED <<hwvars, pc, rem, statusvars, inputvars, cam_threshold, dashvars, sysvars, cam_inflight, msgvars,
                   global_temperature, global_humidity, global_smoke_status>>

\* One DHT attempt of read_env: there is no DHT device (first attempt only), or
\* the attempt succeeds, or it raises and read_env sleeps before the next.
ReadDht ==
    /\ env_pc = "read"
    /\ \/ attempt = 0 /\ ReturnAndPublish(NA, NA)
       \/ \E r \in DhtReadings :
             ReturnAndPublish(Num(Round1(r.temp)), Num(Round1(r.hum)))
       \/ /\ env_pc' = "retry"
          /\ env_rem' = DHT_RETRY_WAIT
          /\ attempt' = attempt + 1
          /\ UNCHANGED <<env, env_out>>
    /\ UNCHANGED <<hwvars, pc, rem, statusvars, inputvars, cam_threshold, dashvars, sysvars, cam_inflight, msgvars,
                   global_temperature, global_humidity, global_smoke_status>>

\* time.sleep(2) is over: the next attempt, or after the third failure the
\* for-else that sets temp and hum to None.
DhtRetry ==
    /\ env_pc = "retry"
    /\ env_rem = 0
    /\ IF attempt = DHT_ATTEMPTS
       THEN ReturnAndPublish(NA, NA)
       ELSE /\ env_pc' = "read"
            /\ UNCHANGED <<env_rem, attempt, env, env_out>>
    /\ UNCHANGED <<hwvars, pc, rem, statusvars, inputvars, cam_threshold, dashvars, sysvars, cam_inflight, msgvars,
                   global_temperature, global_humidity, global_smoke_status>>

\* time.sleep(ENV_INTERVAL) is over: the status globals are set from env, then
\* influx_client.write_points(json_body), outside any try block: when it
\* raises, the exception ends env_loop.
EnvUpdate ==
    /\ env_pc = "sleep"
    /\ env_rem = 0
    /\ global_temperature' = Str(env.temp)
    /\ global_humidity' = Str(env.humidity)
    /\ global_smoke_status' = IF env.smoke = 1 THEN "SMOKE_DETECTED" ELSE "SMOKE_OK"
    /\ \E influx_ok \in BOOLEAN : env_pc' = IF influx_ok THEN "read" ELSE "dead"
    /\ UNCHANGED <<hwvars, pc, rem, statusvars, inputvars, cam_threshold, dashvars, sysvars, cam_inflight, msgvars,
                   env_out, env_rem, attempt, env>>

(***************************************************************************)
(* Inputs of the gateway: motion messages, cam messages, camera scenes.    *)
(***************************************************************************)
MotionMsg(kind, g_force, mic, influx_ok) ==
    [src |-> "motion", kind |-> kind, g_force |-> g_force, mic |-> mic,
     influx_ok |-> influx_ok]

CamMsg(kind, fall_detected, confidence) ==
    [src |-> "cam", kind |-> kind, fall_detected |-> fall_detected,
     confidence |-> confidence]

Scene(capture_ok, faces, ratio, face_area_norm) ==
    [src |-> "camera", capture_ok |-> capture_ok, faces |-> faces, ratio |-> ratio,
     face_area_norm |-> face_area_norm]

GForceFields == {Missing, Bad} \cup {Num(n) : n \in {0, 1799, 1800, 1801, 3000}}
MicFields == {Missing, Bad, Num(120)}
FallFields == {"missing", "bad", "0", "1"}
ConfFields == {Missing, Null, Bad} \cup {Num(n) : n \in {-500, 400, 599, 600, 990, 1500}}

MotionMessages ==
    {MotionMsg(kind, Missing, Missing, ok) :
        kind \in {"undecodable", "empty", "nonmap"}, ok \in BOOLEAN}
    \cup {MotionMsg("map", g, mic, ok) :
        g \in GForceFields, mic \in MicFields, ok \in BOOLEAN}

CamMessages ==
    {CamMsg(kind, "missing", Missing) : kind \in {"undecodable", "empty", "nonmap"}}
    \cup {CamMsg("map", fall, conf) : fall \in FallFields, conf \in ConfFields}

Scenes ==
    {Scene(FALSE, 0, 0, 0), Scene(TRUE, 0, 0, 0)}
    \cup {Scene(TRUE, 1, ratio, area) :
            ratio \in {0, 1000, 1300, 1400, 2000}, area \in {0, 500, 800, 1000}}

Inputs == MotionMessages \cup CamMessages \cup Scenes

\* The inputs the running gateway of Spec is fed: one of each outcome class.
RunMotionMessages ==
    {MotionMsg("undecodable", Missing, Missing, TRUE),
     MotionMsg("map", Num(1800), Num(120), TRUE),
     MotionMsg("map", Num(3000), Num(120), TRUE),
     MotionMsg("map", Num(3000), Bad, TRUE),
     MotionMsg("map", Num(3000), Num(120), FALSE)}

RunCamMessages ==
    {CamMsg("map", "1", Num(400)),
     CamMsg("map", "1", Num(600)),
     CamMsg("map", "1", Missing),
     CamMsg("map", "bad", Num(990))}

RunScenes ==
    {Scene(FALSE, 0, 0, 0), Scene(TRUE, 0, 0, 0),
     Scene(TRUE, 1, 1000, 500), Scene(TRUE, 1, 1400, 0)}

NoInput == [src |-> "none"]

(***************************************************************************)
(* Spec: the running gateway.  Messages arrive and camera cycles run at    *)
(* any time; every message is processed in one call of on_mqtt_message,    *)
(* for as long as the network thread runs.  env_loop, which shares no      *)
(* state with these threads but TOPIC_ENV, runs in EnvSpec and             *)
(* ConcurrentSpec.                                                         *)
(***************************************************************************)
Init ==
    /\ Boot
    /\ inbox = NoInput
    /\ delivered = FALSE

MotionArrives ==
    /\ Receiving
    /\ \E m \in RunMotionMessages : OnMotion(m) /\ UNCHANGED inputvars

CamArrives ==
    /\ Receiving
    /\ \E m \in RunCamMessages : OnCam(m) /\ UNCHANGED <<inputvars, cam_inflight>>

\* The cam message of emotion_publish_loop comes back from the broker.
LoopbackArrives ==
    /\ cam_inflight.src = "cam"
    /\ Receiving
    /\ OnCam(cam_inflight)
    /\ cam_inflight' = [src |-> "none"]
    /\ UNCHANGED inputvars

CameraCycle == \E sc \in RunScenes : EmotionCycle(sc) /\ UNCHANGED inputvars
Handler == \E h \in Handlers : HandlerStep(h)

Next ==
    \/ MotionArrives
    \/ CamArrives
    \/ LoopbackArrives
    \/ CameraCycle
    \/ Handler
    \/ Tick

Spec == Init /\ [][Next]_vars

(***************************************************************************)
(* HandlerSpec: the emergency threads alone.  Confirm is the thread start  *)
(* every confirming path ends in (main.py 158, 201, 259).  The operating   *)
(* system schedules every runnable thread, and time passes.                *)
(***************************************************************************)
Confirm ==
    /\ StartHandler
    /\ UNCHANGED <<hwvars, gatewayvars, env_out>>

HandlerNext ==
    \/ Confirm
    \/ Handler
    \/ Tick

Fairness ==
    /\ \A h \in Handlers : WF_vars(HandlerStep(h))
    /\ WF_vars(Tick)

HandlerSpec == Init /\ [][HandlerNext]_vars /\ Fairness

(***************************************************************************)
(* DecisionSpec: the gateway is given one input, any of Inputs, and        *)
(* processes it; the emergency thread it starts, if any, runs.             *)
(***************************************************************************)
DecisionInit ==
    /\ Boot
    /\ inbox \in Inputs
    /\ delivered = FALSE

Deliver ==
    /\ ~delivered
    /\ delivered' = TRUE
    /\ UNCHANGED inbox
    /\ \/ inbox.src = "motion" /\ Receiving /\ OnMotion(inbox)
       \/ /\ inbox.src = "cam"
          /\ Receiving
          /\ OnCam(inbox)
          /\ UNCHANGED cam_inflight
       \/ inbox.src = "camera" /\ EmotionCycle(inbox)

DecisionNext ==
    \/ Deliver
    \/ LoopbackArrives
    \/ Handler
    \/ Tick

DecisionSpec == DecisionInit /\ [][DecisionNext]_vars

(***************************************************************************)
(* ThresholdSpec: DecisionSpec for a gateway configured with any of these  *)
(* values of CAM_FALL_CONF_THRESHOLD.                                      *)
(***************************************************************************)
Thresholds == {0, 300, CAM_FALL_CONF_THRESHOLD, 1000}

ThresholdInit ==
    /\ BootState
    /\ cam_threshold \in Thresholds
    /\ inbox \in Inputs
    /\ delivered = FALSE

ThresholdSpec == ThresholdInit /\ [][DecisionNext]_vars

(***************************************************************************)
(* EnvSpec: env_loop alone.                                                *)
(***************************************************************************)
EnvNext ==
    \/ ReadDht
    \/ DhtRetry
    \/ EnvUpdate
    \/ Tick

EnvSpec == Init /\ [][EnvNext]_vars

(***************************************************************************)
(* ConcurrentSpec: env_loop next to an emergency thread.  Confirms arrive  *)
(* while no emergency thread is alive, so that one thread at a time meets  *)
(* env_loop at every position of both.                                     *)
(***************************************************************************)
ConfirmWhenIdle ==
    /\ \A h \in Handlers : pc[h] = "idle"
    /\ Confirm

ConcurrentNext ==
    \/ ConfirmWhenIdle
    \/ Handler
    \/ ReadDht
    \/ DhtRetry
    \/ EnvUpdate
    \/ Tick

ConcurrentSpec == Init /\ [][ConcurrentNext]_vars

(***************************************************************************)
(* BusSpec: DecisionSpec with a connection that drops and comes back.      *)
(* MQTTHandler builds mqtt.Client() with its defaults (a clean session),   *)
(* so the broker forgets the subscriptions of a dropped connection; the    *)
(* loop_start() thread reconnects by itself and then calls _on_connect,    *)
(* which prints the result code and subscribes to nothing.                 *)
(***************************************************************************)
Disconnect ==
    /\ connected
    /\ connected' = FALSE
    /\ subscribed' = FALSE
    /\ UNCHANGED <<hwvars, pc, rem, statusvars, inputvars, cam_threshold, dashvars, msgvars,
                   envvars, env_out, main_pc, cam_inflight>>

\* mqtt_handler.py 14-15: _on_connect after the reconnect.
Reconnect ==
    /\ ~connected
    /\ connected' = TRUE
    /\ UNCHANGED <<hwvars, pc, rem, statusvars, inputvars, cam_threshold, dashvars, msgvars,
                   envvars, env_out, subscribed, main_pc, cam_inflight>>

BusNext ==
    \/ Disconnect
    \/ Reconnect
    \/ Deliver
    \/ LoopbackArrives
    \/ Handler
    \/ Tick

BusSpec == DecisionInit /\ [][BusNext]_vars

(***************************************************************************)
(* ShutdownSpec: the emergency threads and the end of the process.  The    *)
(* main thread leaves app.run (KeyboardInterrupt, or app.run returning)    *)
(* and runs off the end of the module; the interpreter then waits for the  *)
(* threads that are not daemon threads, which are the handle_emergency     *)
(* threads (env_loop and emotion_publish_loop are started with             *)
(* daemon=True), and exits.  Until then confirms keep arriving.            *)
(***************************************************************************)
LeaveAppRun ==
    /\ main_pc = "serving"
    /\ main_pc' = "leaving"
    /\ UNCHANGED <<hwvars, pc, rem, statusvars, inputvars, cam_threshold, dashvars, msgvars,
                   envvars, env_out, connected, subscribed, cam_inflight>>

\* Mutant: the handle_emergency threads started as daemon threads: the
\* interpreter does not wait for them.
ProcessExit_Daemon ==
    /\ main_pc = "leaving"
    /\ main_pc' = "exited"
    /\ UNCHANGED <<hwvars, pc, rem, statusvars, inputvars, cam_threshold, dashvars, msgvars,
                   envvars, env_out, connected, subscribed, cam_inflight>>

\* No handle_emergency thread is alive any more: the process exits.
ProcessExit ==
    /\ main_pc = "leaving"
    /\ \A h \in Handlers : pc[h] = "idle"
    /\ main_pc' = "exited"
    /\ UNCHANGED <<hwvars, pc, rem, statusvars, inputvars, cam_threshold, dashvars, msgvars,
                   envvars, env_out, connected, subscribed, cam_inflight>>

ShutdownNext ==
    \/ LeaveAppRun
    \/ ProcessExit
    \/ main_pc # "exited" /\ Confirm
    \/ main_pc # "exited" /\ Handler
    \/ main_pc # "exited" /\ Tick

ShutdownSpec == Init /\ [][ShutdownNext]_vars

(***************************************************************************)
(* The dashboard process, web_stream.py.  It subscribes to TOPIC_ENV,      *)
(* TOPIC_CAM and TOPIC_MOTION in on_connect (40-46) and keeps its own      *)
(* globals, written by on_message (48-69) only.  The CAM_TOPIC and         *)
(* MOTION_TOPIC branches assign global_critical_alert, global_expression   *)
(* and global_latest_g_force and nothing else; the three globals of the    *)
(* ENV_TOPIC branch are written by that branch alone.                      *)
(***************************************************************************)
\* data.get(key, default) on a decoded JSON object.
DashGet(data, key, default) == IF key \in DOMAIN data THEN data[key] ELSE default

\* on_message for a message on ENV_TOPIC whose payload is the JSON object
\* data (52-59): str() and == raise for no JSON value, so all three globals
\* are assigned.
DashOnEnv(data) ==
    /\ dash_temperature' = Str(DashGet(data, "temp", NA))
    /\ dash_humidity' = Str(DashGet(data, "humidity", NA))
    /\ dash_smoke_status' = IF DashGet(data, "smoke", 0) = 1
                            THEN "SMOKE_DETECTED" ELSE "SMOKE_OK"

\* A message on TOPIC_ENV reaches the dashboard: the payload published last,
\* once (QoS 0: a message may be lost, and is not delivered twice).  What the
\* gateway publishes there is always a JSON object.
DashEnvArrives ==
    /\ env_out.kind # "none"
    /\ env_out # dash_env_seen
    /\ DashOnEnv(env_out)
    /\ dash_env_seen' = env_out
    /\ dash_last_sample' = IF env_out.kind = "sample" THEN env_out ELSE dash_last_sample
    /\ UNCHANGED <<hwvars, pc, rem, statusvars, inputvars, cam_threshold, sysvars,
                   cam_inflight, msgvars, envvars, env_out>>

(***************************************************************************)
(* DashSpec: the dashboard next to the two publishers of TOPIC_ENV, which  *)
(* are env_loop and the emergency threads.                                 *)
(***************************************************************************)
DashNext ==
    \/ ConfirmWhenIdle
    \/ Handler
    \/ ReadDht
    \/ DhtRetry
    \/ EnvUpdate
    \/ Tick
    \/ DashEnvArrives

DashSpec == Init /\ [][DashNext]_vars

(***************************************************************************)
(* Properties of the emergency threads.                                    *)
(***************************************************************************)
AllIdle == \A h \in Handlers : pc[h] = "idle"

DoorClosed == servo # "max"

\* C1: a confirm that arrives while an emergency is Active is a no-op, so at
\* most one actuation cycle (a thread between its trigger_emergency and its
\* reset_emergency) is in flight at any time.
C1_AtMostOneCycleInFlight == Cardinality(InFlight) <= 1

\* C2: the Active -> Idle reset fires exactly once per Active window: every
\* execution of reset_emergency ends an Active window, none runs on an
\* emergency that an earlier reset has already ended.
C2_OneResetPerWindow ==
    [][\A h \in Handlers : (pc[h] = "hold" /\ pc'[h] # "hold") => buzzer_on]_vars

\* C3: once Active, the emergency stays Active for at least the hold
\* duration, counted from the Idle -> Active edge: no reset takes effect
\* earlier.
C3_MinimumHold ==
    [][(buzzer_on /\ ~buzzer_on') => active_for >= HOLD_DURATION]_vars

\* The state the system rests in between emergencies, as claimed: no thread
\* in flight, the alarm off logically and physically, the door closed.
Rest == AllIdle /\ ~buzzer_on /\ buzzer = "off" /\ DoorClosed

\* The same, with the physical outputs required only while no GPIO call has
\* failed.
RestUnlessFault == AllIdle /\ ~buzzer_on /\ (~gpio_fault => buzzer = "off" /\ DoorClosed)

C5_StateMatchesTimers ==
    /\ buzzer_on => InFlight # {}
    /\ ~buzzer_on => InFlight = {}

(***************************************************************************)
(* Properties of the decisions.                                            *)
(***************************************************************************)
\* The step in which the gateway processes its input.
Delivery == ~delivered /\ delivered'

HandlerStarted == pc' # pc

\* The g_force a motion message carries: the parsed number, 0 when the field
\* is missing or malformed.
CarriedGForce(m) ==
    IF m.kind = "map" /\ IsNumber(m.g_force) THEN m.g_force.v ELSE 0

\* C6: a motion message whose g_force is at most G_FORCE_LIMIT (the limit
\* itself and a g_force coerced to 0 included) starts no emergency thread.
C6_NoConfirmUpToLimit ==
    (delivered /\ inbox.src = "motion" /\ CarriedGForce(inbox) <= G_FORCE_LIMIT)
        => AllIdle

C6_Witness ==
    /\ delivered
    /\ inbox = MotionMsg("map", Num(G_FORCE_LIMIT), Num(120), TRUE)
    /\ AllIdle
    /\ global_critical_alert = "ALERT_OK"

\* C7: fail-open: a motion message with g_force above G_FORCE_LIMIT and no
\* vision assessment available confirms (an emergency thread is started).
C7_FailOpen ==
    [][(Delivery /\ inbox.src = "motion" /\ CarriedGForce(inbox) > G_FORCE_LIMIT
            /\ vres = NoVres)
        => HandlerStarted]_vars

\* C8: when the motion trigger fires while a vision assessment is available
\* that is negative (fall_detected false or confidence below the threshold),
\* the motion trigger does not confirm.
C8_MotionNeedsVision ==
    [][(/\ vres.t = "dict"
        /\ ~(vres.fall_detected = "1" /\ vres.confidence >= CAM_FALL_CONF_THRESHOLD)
        /\ global_critical_alert = "ALERT_OK"
        /\ global_critical_alert' = "FALL DETECTED")
        => ~HandlerStarted]_vars

C10_LegacyNoConfidence ==
    [][(Delivery /\ inbox.src = "cam" /\ inbox.kind = "map"
            /\ inbox.confidence = Missing)
        => (HandlerStarted <=> inbox.fall_detected = "1")]_vars

C10_Witness ==
    /\ delivered
    /\ inbox = CamMsg("map", "1", Missing)
    /\ pc[1] = "start"

(***************************************************************************)
(* Properties of on_mqtt_message.                                          *)
(***************************************************************************)
\* min(1, max(0, confidence)).
Clamp01(x) == Min(1000, Max(0, x))

\* C11: for every numeric confidence and every threshold in [0,1], the
\* decision on a cam report equals the decision taken with the confidence
\* clamped into [0,1].
C11_ClampedDecision ==
    [][(Delivery /\ inbox.src = "cam" /\ inbox.kind = "map"
            /\ FallVal(inbox.fall_detected) # Raise /\ IsNumber(inbox.confidence))
        => (HandlerStarted <=>
                CamTrigger(FallVal(inbox.fall_detected),
                           Num(Clamp01(inbox.confidence.v))))]_vars

(***************************************************************************)
(* Properties of the actuation faults.                                     *)
(***************************************************************************)
\* Thread h is inside trigger_emergency, at one of its GPIO calls.
InTriggerGpio(h) == pc[h] \in {"t_buzzer", "t_servo"}

\* C12: a GPIO call that raises inside trigger_emergency or reset_emergency
\* does not undo the logical transition (every trigger_emergency sets
\* _buzzer_on, every reset_emergency clears it), no exception ends the
\* thread before its hold and its reset (the only way to its end is out of
\* the hold through reset_emergency), and under fair scheduling the thread
\* does reach its end: there is no retry loop.
C12_FaultContained ==
    /\ [][\A h \in Handlers :
            /\ (pc[h] = "start" /\ pc'[h] # "start") => buzzer_on'
            /\ (pc[h] = "hold" /\ pc'[h] # "hold") => ~buzzer_on'
            /\ (ResetPending(h) /\ pc[h] # "hold") => pc'[h] # "idle"
            /\ InTriggerGpio(h) => pc'[h] \in {pc[h], "t_servo", "t_sleep", "publish"}]_vars
    /\ \A h \in Handlers : []<>(pc[h] = "idle")

\* buzzer.on() has raised: the buzzer is silent, yet the emergency is Active
\* and its thread is in the hold.
C12_Witness ==
    /\ gpio_ready
    /\ gpio_fault
    /\ pc[1] = "hold"
    /\ pc[2] = "idle"
    /\ buzzer_on
    /\ buzzer = "off"
    /\ servo = "none"

(***************************************************************************)
(* Properties of the motion branch.                                        *)
(***************************************************************************)
\* C13: every message received on the motion topic is republished on the
\* cloud relay topic, whatever its g_force and whether or not the primary
\* trigger fires.
C13_MotionRepublished ==
    [][(Delivery /\ inbox.src = "motion") => cloud_motion' = inbox]_vars

\* C14: the g_force a motion message is tested with (g_val, stored in
\* global_latest_g_force) is its parsed g_force when that field is
\* parseable and 0 otherwise, whatever its mic field is.
C14_FieldwiseCoercion ==
    [][(Delivery /\ inbox.src = "motion" /\ inbox.kind = "map" /\ inbox.influx_ok)
        => global_latest_g_force' = CarriedGForce(inbox)]_vars

\* C15: whatever the payload of a message on the motion or cam topic
\* (undecodable, not a mapping, fields missing or not numeric), on_mqtt_message
\* returns without raising, with the database answering, and the network
\* thread goes on to the next message.
C15_MalformedNeverRaises ==
    [][(/\ Delivery
        /\ inbox.src \in {"motion", "cam"}
        /\ inbox.src = "motion" => inbox.influx_ok)
        => mqtt_loop' = "running"]_vars

(***************************************************************************)
(* Properties of what the gateway reports.                                 *)
(***************************************************************************)
\* C16: the alert of the status view follows the emergency state: it is
\* FALL DETECTED while the emergency is Active, whichever path confirmed it,
\* and back to ALERT_OK once the emergency has been reset and no emergency
\* thread is left.
C16_AlertFollowsEmergency ==
    /\ buzzer_on => global_critical_alert = "FALL DETECTED"
    /\ (AllIdle /\ ~buzzer_on) => global_critical_alert = "ALERT_OK"

\* C17: every emergency state change is published: once an emergency has
\* been reset and no emergency thread is left, the last event published on
\* the bus is the one of the Active -> Idle reset, not the one of the fall.
C17_ResetPublished ==
    (AllIdle /\ ~buzzer_on /\ env_out.kind = "event") => env_out.event # "fall"

(***************************************************************************)
(* Properties of env_loop.                                                 *)
(***************************************************************************)
\* env_loop has a step to take: it is not asleep and has not ended.
EnvRunnable == env_pc = "read" \/ (EnvSleeping /\ env_rem = 0)

EnvLoop == ReadDht \/ DhtRetry \/ EnvUpdate

\* C18: env_loop and the emergency path never block each other: whatever
\* the emergency threads are doing (actuation, hold, reset), env_loop can
\* take its next step whenever it is not asleep; and whatever env_loop is
\* doing (a DHT retry included), a confirm can start its thread as long as
\* the network thread has a slot for it, and a started thread can enter
\* trigger_emergency.
C18_NoBlocking ==
    /\ EnvRunnable => ENABLED EnvLoop
    /\ FreeSlots # {} => ENABLED Confirm
    /\ \A h \in Handlers : pc[h] = "start" => ENABLED TriggerFlag(h)

\* A sample went out after the fall event of the thread now in its hold.
C18_Witness ==
    /\ pc[1] = "hold"
    /\ buzzer_on
    /\ env_out.kind = "sample"
    /\ env_pc = "sleep"

\* C19: a failed sensor read never ends env_loop: when all DHT attempts of a
\* cycle have failed, read_env returns "N/A" for temperature and humidity,
\* the cycle publishes that sample, and the cycle ends with env_loop going
\* on to its next read.
C19_LoopSurvivesFailedRead ==
    [][/\ (env_pc = "retry" /\ attempt = DHT_ATTEMPTS /\ env_pc' # "retry")
          => (/\ env_pc' = "sleep"
              /\ env_out'.kind = "sample"
              /\ env_out'.temp = NA
              /\ env_out'.humidity = NA)
       /\ (env_pc = "sleep" /\ env.temp = NA /\ env_pc' # "sleep")
          => env_pc' = "read"]_vars

\* C20: an unavailable sensor is reported as absent, never as a made-up
\* reading: with no smoke sensor (no GPIO), the published sample carries no
\* smoke level and the status view reports no smoke detection.
C20_AbsentNotSynthesized ==
    /\ (~gpio_ready /\ env_out.kind = "sample") => env_out.smoke \notin SmokeLevels
    /\ ~gpio_ready => global_smoke_status # "SMOKE_DETECTED"

\* C21: every payload published on the env topic is an environment sample
\* (temp, humidity, smoke, timestamp); nothing else is published there.
C21_EnvTopicOnlySamples == env_out.kind \in {"none", "sample"}

(***************************************************************************)
(* Properties of the shutdown.                                             *)
(***************************************************************************)
\* C22: when the process exits after the main thread has left app.run, no
\* emergency thread is between its trigger_emergency and its
\* reset_emergency: every cycle has completed its reset, the alarm is off
\* logically and, GPIO faults apart, the buzzer is off and the door closed.
C22_ExitAfterReset ==
    main_pc = "exited" =>
        /\ InFlight = {}
        /\ AllIdle
        /\ ~buzzer_on
        /\ ~gpio_fault => (buzzer = "off" /\ DoorClosed)

\* The process has exited after an emergency cycle that ran to its end.
C22_Witness ==
    /\ main_pc = "exited"
    /\ gpio_ready
    /\ ~gpio_fault
    /\ buzzer = "off"
    /\ servo = "min"

(***************************************************************************)
(* Properties of the connection.                                           *)
(***************************************************************************)
\* C23: whenever the connection is up, after a reconnect as before the
\* disconnect, a motion or cam message published now is delivered to
\* on_mqtt_message (the network thread being alive).
C23_ResumeAfterReconnect ==
    (/\ connected
     /\ mqtt_loop = "running"
     /\ ~delivered
     /\ inbox.src \in {"motion", "cam"})
        => ENABLED Deliver

(***************************************************************************)
(* Properties of the vision decisions.                                     *)
(***************************************************************************)
\* C24: the cam-message path decides on every vision assessment (fall flag
\* set or not, confidence present or absent) as the local camera path
\* decides on the same assessment.
C24_SamePolicy ==
    [][(Delivery /\ inbox.src = "cam" /\ inbox.kind = "map"
            /\ FallVal(inbox.fall_detected) # Raise)
        => (HandlerStarted <=>
                LocalDecision(inbox.fall_detected, inbox.confidence))]_vars

\* C25: one fall seen by the local camera loop causes one actuation cycle:
\* the cam message published for that cycle, when it comes back to the
\* gateway, starts no emergency thread.
C25_LoopbackStartsNothing ==
    [][(/\ inbox.src = "camera"
        /\ delivered
        /\ cam_inflight.src = "cam"
        /\ cam_inflight'.src = "none")
        => ~HandlerStarted]_vars

(***************************************************************************)
(* Properties of the persistence failures.                                 *)
(***************************************************************************)
\* C26: a well-formed motion message with g_force above G_FORCE_LIMIT starts
\* the emergency thread whether or not the write_points calls made for that
\* message succeed.
C26_WriteFailureKeepsEmergency ==
    [][(/\ Delivery
        /\ inbox.src = "motion"
        /\ inbox.kind = "map"
        /\ IsNumber(inbox.g_force)
        /\ inbox.g_force.v > G_FORCE_LIMIT
        /\ inbox.mic # Bad)
        => HandlerStarted]_vars

(***************************************************************************)
(* Properties of the physical outputs.                                     *)
(***************************************************************************)
\* No thread is inside trigger_emergency or reset_emergency.
NoHwCall == \A h \in Handlers : pc[h] \in {"idle", "start", "publish", "hold"}

\* C27: under every interleaving of the emergency threads, with no GPIO call
\* having failed, whenever no trigger_emergency or reset_emergency call is in
\* progress the buzzer is on exactly when the last servo command was max
\* (door open).
C27_OutputsConsistent ==
    (~gpio_fault /\ NoHwCall) => (buzzer = "on" <=> servo = "max")

(***************************************************************************)
(* Properties of the confidence floor.                                     *)
(***************************************************************************)
\* C28: a cam report whose confidence field is present but null or not a
\* number starts no emergency thread, whatever its fall_detected.
C28_PresentConfidenceMustParse ==
    [][(Delivery /\ inbox.src = "cam" /\ inbox.kind = "map"
            /\ inbox.confidence \in {Null, Bad})
        => ~HandlerStarted]_vars

\* C29: with the default threshold, a frame in which no face is found (the
\* no-face heuristic of analyze_scene) does not make emotion_publish_loop
\* start an emergency thread.
C29_NoFaceSuppressed ==
    [][(Delivery /\ inbox.src = "camera" /\ inbox.capture_ok /\ inbox.faces = 0)
        => ~HandlerStarted]_vars

(***************************************************************************)
(* Properties of the status view.                                          *)
(***************************************************************************)
\* C30: whenever env_loop is suspended in its ENV_INTERVAL sleep, the status
\* view (temperature, humidity, smoke status) is the one of the sample
\* published last.
C30_ViewMatchesPublished ==
    env_pc = "sleep" =>
        /\ global_temperature = Str(env_out.temp)
        /\ global_humidity = Str(env_out.humidity)
        /\ global_smoke_status = IF env_out.smoke = 1 THEN "SMOKE_DETECTED" ELSE "SMOKE_OK"

(***************************************************************************)
(* Properties of the dashboard.                                            *)
(***************************************************************************)
\* C31: once the dashboard has received an environment sample, the
\* temperature, humidity and smoke status it shows are those of the most
\* recent sample received, whatever else it has received since (the fall
\* event of an emergency thread leaves the three fields as they are).
C31_DashShowsLastSample ==
    dash_last_sample.kind = "sample" =>
        /\ dash_temperature = Str(dash_last_sample.temp)
        /\ dash_humidity = Str(dash_last_sample.humidity)
        /\ dash_smoke_status = IF dash_last_sample.smoke = 1
                               THEN "SMOKE_DETECTED" ELSE "SMOKE_OK"

====
